---- MODULE Spec2Model ----
(***************************************************************************)
(* Model of convert_to_pdf.py: the walk over the input folder, the         *)
(* per-file conversion (process_file), the folder-structure rendering      *)
(* (generate_folder_structure_pdf) and the merge of the individual PDFs    *)
(* (merge_pdfs), driven by main.                                            *)
(*                                                                         *)
(* A Python str is a sequence of one-character strings, so that            *)
(* startswith, endswith, lower, rfind, split and the ordering of sorted()  *)
(* are computed as Python computes them.  A path is the sequence of its    *)
(* components.  A text handed to PDF.add_text is a sequence of atoms: a    *)
(* character, a literal piece of an f-string, or the line feed "\n".       *)
(***************************************************************************)
EXTENDS Integers, Sequences, FiniteSets, TLC

\* ------------------------------------------------------------------ bounds

\* Most files of an input tree.
MaxFiles == 2
\* Most entries already present in a folder handed to merge_pdfs.
MaxPdfs == 2
\* Most successive merge_pdfs calls on one folder.
MaxMerges == 2
\* Text cells that fit on one page before the automatic page break.
PageLines == 4

\* ----------------------------------------------------------------- strings

Range(s) == {s[i] : i \in 1..Len(s)}

\* Printable ASCII, code points 32..126 in order (code point 96 is spelled out).
Ascii ==
  <<" ", "!", "\"", "#", "$", "%", "&", "'", "(", ")", "*", "+", ",", "-",
    ".", "/", "0", "1", "2", "3", "4", "5", "6", "7", "8", "9", ":", ";",
    "<", "=", ">", "?", "@", "A", "B", "C", "D", "E", "F", "G", "H", "I",
    "J", "K", "L", "M", "N", "O", "P", "Q", "R", "S", "T", "U", "V", "W",
    "X", "Y", "Z", "[", "\\", "]", "^", "_", "(grave)", "a", "b", "c", "d", "e",
    "f", "g", "h", "i", "j", "k", "l", "m", "n", "o", "p", "q", "r", "s",
    "t", "u", "v", "w", "x", "y", "z", "{", "|", "}", "~">>

\* ord(c)
OrdTable == [c \in Range(Ascii) |-> 31 + (CHOOSE i \in 1..Len(Ascii) : Ascii[i] = c)]
Ord(c) == OrdTable[c]

\* str.lower(), character by character
LowerChar(c) == IF Ord(c) >= Ord("A") /\ Ord(c) <= Ord("Z")
                THEN Ascii[Ord(c) + 32 - 31] ELSE c
Lower(s) == [i \in 1..Len(s) |-> LowerChar(s[i])]

\* s.startswith(p), s.endswith(p)
StartsWith(s, p) == Len(s) >= Len(p) /\ SubSeq(s, 1, Len(p)) = p
EndsWith(s, p) == Len(s) >= Len(p) /\ SubSeq(s, Len(s) - Len(p) + 1, Len(s)) = p

\* s < t for two str: the first differing code point decides, a proper prefix is smaller
StrLess(s, t) ==
  \E k \in 0..Len(s) :
    /\ k <= Len(t)
    /\ \A i \in 1..k : s[i] = t[i]
    /\ \/ k = Len(s) /\ k < Len(t)
       \/ k < Len(s) /\ k < Len(t) /\ Ord(s[k + 1]) < Ord(t[k + 1])

\* s.rfind(c), 0-indexed, -1 when absent
RFind(s, c) ==
  IF \E i \in 1..Len(s) : s[i] = c
  THEN (CHOOSE i \in 1..Len(s) : s[i] = c /\ \A j \in (i + 1)..Len(s) : s[j] # c) - 1
  ELSE -1

\* All orders in which a scan may return the members of S.
Perms(S) == {p \in [1..Cardinality(S) -> S] : \A i, j \in 1..Cardinality(S) : p[i] = p[j] => i = j}

\* sorted(S) for a set of distinct str: the member with i - 1 smaller ones comes i-th
Sorted(S) ==
  [i \in 1..Cardinality(S) |-> CHOOSE x \in S : Cardinality({y \in S : StrLess(y, x)}) = i - 1]

\* sorted(seq) for a list of distinct str
SortedSeq(s) == Sorted(Range(s))

RECURSIVE Flatten(_)
Flatten(ss) == IF ss = <<>> THEN <<>> ELSE Head(ss) \o Flatten(Tail(ss))

\* ------------------------------------------------------------------- paths

Sep == "/"

\* os.path.join of the components of a path
RECURSIVE PathStr(_)
PathStr(p) == IF p = <<>> THEN <<>>
              ELSE IF Len(p) = 1 THEN p[1]
              ELSE p[1] \o <<Sep>> \o PathStr(Tail(p))

\* relative_path.replace(os.sep, ' > ')
DisplayPath(s) == [i \in 1..Len(s) |-> IF s[i] = Sep THEN " > " ELSE s[i]]

\* PurePath.suffix of a file name
Suffix(name) ==
  LET i == RFind(name, ".")
  IN IF 0 < i /\ i < Len(name) - 1 THEN SubSeq(name, i + 1, Len(name)) ELSE <<>>

\* PurePath.with_suffix applied to the last component of a path
WithSuffix(p, suffix) ==
  LET name == p[Len(p)]
      old  == Suffix(name)
      new  == IF old = <<>> THEN name \o suffix
              ELSE SubSeq(name, 1, Len(name) - Len(old)) \o suffix
  IN SubSeq(p, 1, Len(p) - 1) \o <<new>>

Parent(p) == SubSeq(p, 1, Len(p) - 1)
Basename(p) == p[Len(p)]
IsPrefix(p, q) == Len(p) <= Len(q) /\ SubSeq(q, 1, Len(p)) = p
\* every proper ancestor of p, the root <<>> included
Ancestors(p) == {SubSeq(p, 1, k) : k \in 0..(Len(p) - 1)}


\* ----------------------------------------------------------- configuration

SKIP_FOLDERS ==
  { <<".", "g", "i", "t">>,
    <<"_", "_", "p", "y", "c", "a", "c", "h", "e", "_", "_">>,
    <<"n", "o", "d", "e", "_", "m", "o", "d", "u", "l", "e", "s">>,
    <<"l", "o", "c", "a", "l", "_", "t", "i", "k", "t", "o", "k", "e", "n", "_", "c", "a", "c", "h", "e">> }

SKIP_FILES ==
  { <<".", "d", "o", "c", "k", "e", "r", "i", "g", "n", "o", "r", "e">>,
    <<"R", "E", "A", "D", "M", "E", ".", "m", "d">>,
    <<"g", "e", "n", "e", "r", "i", "c", ".", "p", "d", "f">>,
    <<"w", "i", "t", "h", "_", "c", "a", "b", "i", "n", ".", "p", "d", "f">>,
    <<"t", "e", "m", "p", "l", "a", "t", "e", "_", "E", "N", ".", "p", "d", "f">>,
    <<"m", "o", "d", "i", "f", "i", "e", "d", "_", "t", "e", "m", "p", "l", "a", "t", "e", ".", "p", "d", "f">>,
    <<"C", "A", "L", "I", "B", "R", "I", ".", "t", "t", "f">>,
    <<"C", "A", "L", "I", "B", "R", "I", "B", ".", "t", "t", "f">> }

MAX_FILE_SIZE == 2 * 1024 * 1024

PdfSuffix == <<".", "p", "d", "f">>
\* the name main gives the merged document
MergedName == <<"a", "p", "p", "_", "s", "o", "u", "r", "c", "e", ".", "p", "d", "f">>
\* args.input_folder
InputFolder == <<"i", "n">>

\* ------------------------------------------------------------ PDF documents

NL == "\n"

\* text.split('\n'): one more line than there are line feeds
RECURSIVE Split(_)
Split(text) ==
  IF \A i \in 1..Len(text) : text[i] # NL THEN <<text>>
  ELSE LET k == CHOOSE i \in 1..Len(text) : text[i] = NL /\ \A j \in 1..(i - 1) : text[j] # NL
       IN <<SubSeq(text, 1, k - 1)>> \o Split(SubSeq(text, k + 1, Len(text)))

\* PDF.add_text: one cell and one line break per line of the text.  A document under
\* construction is the sequence of its cells.
add_text(doc, text) == doc \o Split(text)

\* PDF.__init__ adds the first page and add_text fills it; the automatic page break
\* starts a new page when the cells no longer fit.  The pages of the written document.
RECURSIVE Paginate(_)
Paginate(doc) ==
  IF Len(doc) <= PageLines THEN <<doc>>
  ELSE <<SubSeq(doc, 1, PageLines)>> \o Paginate(SubSeq(doc, PageLines + 1, Len(doc)))

\* The fonts of a document.  add_font and set_font look a font up by the key family +
\* style, the family in lower case and arial standing for helvetica; a key that was not
\* added is served by the core fonts where the family is one of them, in every style.
CoreFonts ==
  { <<"c", "o", "u", "r", "i", "e", "r">>, <<"h", "e", "l", "v", "e", "t", "i", "c", "a">>,
    <<"t", "i", "m", "e", "s">>, <<"s", "y", "m", "b", "o", "l">>,
    <<"z", "a", "p", "f", "d", "i", "n", "g", "b", "a", "t", "s">> }
FontFamily(font_name) ==
  IF Lower(font_name) = <<"a", "r", "i", "a", "l">> THEN <<"h", "e", "l", "v", "e", "t", "i", "c", "a">>
  ELSE Lower(font_name)
\* self.add_font(font_name, '', font_path, uni=True): the keys of a new document
AddFont(font_name) == {FontFamily(font_name)}
\* set_font(font_name, style) raises on a font that is neither added nor a core font
SetFontRaises(fonts, font_name, style) ==
  (FontFamily(font_name) \o style) \notin fonts /\ FontFamily(font_name) \notin CoreFonts

\* What a path of an output folder holds: a directory, a PDF document with its pages,
\* or a file PdfReader cannot parse.
DirNode == [type |-> "dir", pages |-> <<>>]
RawNode == [type |-> "raw", pages |-> <<>>]
PdfNode(pages) == [type |-> "pdf", pages |-> pages]
\* a document that was not written
NoNode == [type |-> "none", pages |-> <<>>]

\* ------------------------------------------------------------- input files

\* A file of the input tree: its directory and name, whether it still exists behind
\* its directory entry (a dangling symbolic link does not), whether it may be opened,
\* whether a zero byte lies within its first 1024 bytes, its size in bytes, whether
\* its bytes are valid UTF-8, and its text (decoded with replacement where invalid).
FilePath(f) == f.dir \o <<f.name>>

\* is_binary: any failure to open or read is swallowed and answers False
is_binary(f) == f.exists /\ f.readable /\ f.nul

BinaryPlaceholder == <<"**Binary File: Content not displayed**">>
\* MAX_FILE_SIZE / (1024 * 1024) is a float: 2.0
SizeMB == <<Ascii[Ord("0") + (MAX_FILE_SIZE \div (1024 * 1024)) - 31], ".", "0">>
SizePlaceholder == <<"**File skipped: Exceeds maximum size of ">> \o SizeMB \o <<" MB**">>
ErrorPlaceholder == <<"**Error reading file: ", "PermissionError", "**">>

\* the first text of every document
Header(relative_path) ==
  <<"File Location: ">> \o InputFolder \o <<" > ">> \o DisplayPath(relative_path) \o <<NL, NL>>

\* path.mkdir(parents=True, exist_ok=True): raises when the path, or a directory above
\* it up to the folder itself, exists and is not a directory
MkdirRaises(folder, dir) ==
  \E k \in 0..Len(dir) :
    SubSeq(dir, 1, k) \in DOMAIN folder /\ folder[SubSeq(dir, 1, k)].type # "dir"

MkdirParents(folder, dir) ==
  LET made == {SubSeq(dir, 1, k) : k \in 0..Len(dir)}
  IN [p \in DOMAIN folder \cup made |-> IF p \in DOMAIN folder THEN folder[p] ELSE DirNode]

\* pdf.output(path): raises when the path is a directory
OutputRaises(folder, path) == path \in DOMAIN folder /\ folder[path].type = "dir"

WriteFile(folder, path, node) ==
  [p \in DOMAIN folder \cup {path} |-> IF p = path THEN node ELSE folder[p]]

\* process_file on file f with the output folder as it stands.  The result: the output
\* folder afterwards, whether an exception left process_file, whether the file's full
\* text was read, and the path pdf.output wrote (none: the empty sequence).
process_file(f, folder) ==
  LET relative_path == PathStr(FilePath(f))
      pdf0 == add_text(<<>>, Header(relative_path))
      output_pdf_path == WithSuffix(FilePath(f), PdfSuffix)
      finish(pdf, fullRead) ==
        IF MkdirRaises(folder, Parent(output_pdf_path))
        THEN [out |-> folder, raised |-> TRUE, read |-> fullRead, wrote |-> <<>>]
        ELSE LET made == MkdirParents(folder, Parent(output_pdf_path))
             IN IF OutputRaises(made, output_pdf_path)
                THEN \* logged and printed, process_file returns
                     [out |-> made, raised |-> FALSE, read |-> fullRead, wrote |-> <<>>]
                ELSE [out |-> WriteFile(made, output_pdf_path, PdfNode(Paginate(pdf))),
                      raised |-> FALSE, read |-> fullRead, wrote |-> <<output_pdf_path>>]
  IN IF is_binary(f)
     THEN \* the placeholder is added and process_file returns
          [out |-> folder, raised |-> FALSE, read |-> FALSE, wrote |-> <<>>]
     ELSE IF ~f.exists
     THEN \* os.path.getsize raises
          [out |-> folder, raised |-> TRUE, read |-> FALSE, wrote |-> <<>>]
     ELSE IF f.size > MAX_FILE_SIZE
     THEN \* the placeholder is added and process_file returns
          [out |-> folder, raised |-> FALSE, read |-> FALSE, wrote |-> <<>>]
     ELSE IF ~f.readable
     THEN \* open raises, the error is rendered in place of the content
          finish(add_text(pdf0, ErrorPlaceholder), FALSE)
     ELSE \* the strict read, or after UnicodeDecodeError the read with replacement
          finish(add_text(pdf0, f.text), TRUE)


\* ------------------------------------------------------------- directory walk

\* A listing ls maps each directory (a path) to what a scan of it returns: whether the
\* scan succeeds, and the names of its sub-directories and of its other entries, each
\* in the order the operating system hands them out.

\* os.walk(top), top-down, errors of a scan ignored: the (root, files) of every
\* directory visited.  keep holds the directories left in dirs by the caller before
\* the walk descends.
RECURSIVE os_walk(_, _, _)
os_walk(top, ls, keep) ==
  IF ~ls[top].ok THEN <<>>
  ELSE LET dirs == SelectSeq(ls[top].dirs, LAMBDA d : (top \o <<d>>) \in keep)
       IN <<[root |-> top, files |-> ls[top].files]>>
          \o Flatten([i \in 1..Len(dirs) |-> os_walk(top \o <<dirs[i]>>, ls, keep)])

\* dirs[:] = [d for d in dirs if d not in SKIP_FOLDERS and not d.startswith('.')]
KeepDir(d) == d \notin SKIP_FOLDERS /\ ~StartsWith(d, <<".">>)
\* if file not in SKIP_FILES and not file.startswith('.')
KeepFile(file) == file \notin SKIP_FILES /\ ~StartsWith(file, <<".">>)

\* main's collection loop: all_files
CollectFiles(ls) ==
  LET keep == {d \in DOMAIN ls : d = <<>> \/ KeepDir(Basename(d))}
      walk == os_walk(<<>>, ls, keep)
      kept(e) == SelectSeq(e.files, KeepFile)
  IN Flatten([i \in 1..Len(walk) |->
       [j \in 1..Len(kept(walk[i])) |-> walk[i].root \o <<kept(walk[i])[j]>>]])

\* ------------------------------------------------------- folder structure

\* The box-drawing pieces, spelled in ASCII: LastConnector is U+2514 U+2500 U+2500 and
\* a space, MidConnector is U+251C U+2500 U+2500 and a space, Bar is U+2502 and three
\* spaces.
LastConnector == "L-- "
MidConnector == "T-- "
Bar == "|   "
Blank == "    "

ConnectorBroken(is_last) == MidConnector
Connector(is_last) == IF is_last THEN LastConnector ELSE MidConnector
Extension(is_last) == IF is_last THEN Blank ELSE Bar

DeniedLine(prefix) == prefix \o <<LastConnector, "[Permission Denied]", NL>>

\* add_directory_contents: the cells added for directory, given the listing of the
\* tree (os.listdir is its sub-directories and other entries together, and raises
\* PermissionError where the scan is denied)
RECURSIVE add_directory_contents(_, _, _)
add_directory_contents(ls, directory, prefix) ==
  IF ~ls[directory].ok THEN Split(DeniedLine(prefix))
  ELSE LET items == Sorted(Range(ls[directory].dirs) \cup Range(ls[directory].files))
           one(index) ==
             LET item == items[index]
                 is_last == index = Len(items)
             IN Split(prefix \o <<Connector(is_last)>> \o item)
                \o IF item \in Range(ls[directory].dirs)
                   THEN add_directory_contents(ls, directory \o <<item>>,
                                               prefix \o <<Extension(is_last)>>)
                   ELSE <<>>
       IN Flatten([index \in 1..Len(items) |-> one(index)])

Title == <<"Application Folder Structure", NL, NL>>

\* generate_folder_structure_pdf: whether an exception left it, and what
\* <output_folder>/application_folder_structure.pdf holds afterwards, existing being
\* what it held before.  The title is set in the bold style of font_name, of which
\* PDF.__init__ added the regular style only.  pdf.output raises when the path is a
\* directory: the failure is logged and printed, and the function returns.
generate_folder_structure_pdf(ls, font_name, existing) ==
  IF SetFontRaises(AddFont(font_name), font_name, <<"B">>)
  THEN [raised |-> TRUE, pdf |-> existing]
  ELSE [raised |-> FALSE,
        pdf |-> IF existing.type = "dir" THEN existing
                ELSE PdfNode(Paginate(add_text(<<>>, Title)
                                      \o add_directory_contents(ls, <<>>, <<>>)))]

\* --------------------------------------------------------------------- merge

\* The directories of an output folder and the listing a scan of them gives.
FolderDirs(folder) == {p \in DOMAIN folder : folder[p].type = "dir"}
SubdirNames(folder, d) ==
  {Basename(p) : p \in {q \in FolderDirs(folder) : q # <<>> /\ Parent(q) = d}}
FileNames(folder, d) ==
  {Basename(p) : p \in {q \in DOMAIN folder \ FolderDirs(folder) : Parent(q) = d}}

\* Every order in which the scans of the folder's directories may return their entries.
ScanOrders(folder) ==
  LET D == FolderDirs(folder)
      of(d) == [ok : {TRUE}, dirs : Perms(SubdirNames(folder, d)),
                files : Perms(FileNames(folder, d))]
  IN {ls \in [D -> UNION {of(d) : d \in D}] : \A d \in D : ls[d] \in of(d)}

\* The listing of a folder whose scans return the entries present in the order they
\* have in order, a listing of the folder and of entries it may yet get.
Listing(folder, order) ==
  [d \in FolderDirs(folder) |->
     [ok |-> TRUE,
      dirs |-> SelectSeq(order[d].dirs, LAMBDA n : n \in SubdirNames(folder, d)),
      files |-> SelectSeq(order[d].files, LAMBDA n : n \in FileNames(folder, d))]]

\* if file.lower().endswith('.pdf') and file != output_filename
IsMergeSourceNoExclusion(file, output_filename) == EndsWith(Lower(file), PdfSuffix)
IsMergeSource(file, output_filename) ==
  EndsWith(Lower(file), PdfSuffix) /\ file # output_filename

\* for file in sorted(files)
MergeOrderUnsorted(files) == files
MergeOrder(files) == SortedSeq(files)

\* merge_pdfs(pdf_folder, output_filename) on a folder whose scans answer ls: the
\* paths collected, the pages handed to the writer, and the folder afterwards.
merge_pdfs(folder, output_filename, ls) ==
  LET walk == os_walk(<<>>, ls, DOMAIN ls)
      picked(e) == SelectSeq(MergeOrder(e.files), LAMBDA file : IsMergeSource(file, output_filename))
      all_pdfs == Flatten([i \in 1..Len(walk) |->
                    [j \in 1..Len(picked(walk[i])) |-> walk[i].root \o <<picked(walk[i])[j]>>]])
      \* PdfReader raises on a file it cannot parse: logged, the file skipped
      pages == Flatten([i \in 1..Len(all_pdfs) |->
                 IF folder[all_pdfs[i]].type = "pdf" THEN folder[all_pdfs[i]].pages ELSE <<>>])
      output_pdf_path == <<output_filename>>
  IN [all_pdfs |-> all_pdfs,
      pages |-> pages,
      out |-> IF OutputRaises(folder, output_pdf_path) THEN folder
              ELSE WriteFile(folder, output_pdf_path, PdfNode(pages))]


\* ------------------------------------------------------------------- state

VARIABLES
  files,          \* the files of the input tree
  ls,             \* the listing of the input tree's directories
  in_ok,          \* os.path.isdir(input_folder)
  font_ok,        \* os.path.isfile(font_path)
  out0,           \* <output_folder>/individual_pdfs as the run found it
  out,            \* <output_folder>/individual_pdfs: path -> what it holds
  args,           \* the parsed flags
  pc,             \* where main stands
  all_files,      \* main's candidate list
  calls,          \* the files process_file has been invoked on, in order
  reads,          \* the files whose full text has been read
  writes,         \* the documents written: the file and the path of its PDF, in order
  structure_pdf,  \* <output_folder>/application_folder_structure.pdf
  merges,         \* one record per merge_pdfs call: the paths collected, the pages written
  exit_code       \* the process's exit code, -1 while it runs

vars == <<files, ls, in_ok, font_ok, out0, out, args, pc, all_files, calls, reads, writes,
          structure_pdf, merges, exit_code>>

\* parser.add_argument("--fontname", ..., default='CustomFont')
DefaultFontName == <<"C", "u", "s", "t", "o", "m", "F", "o", "n", "t">>
\* the font names a run is given: the default, or the name of a core font
FontNames == {DefaultFontName, <<"A", "r", "i", "a", "l">>}
\* the flags before they are parsed: the defaults of the parser
NoArgs == [generate_structure |-> FALSE, merge |-> FALSE, fontname |-> DefaultFontName]

\* --------------------------------------------------------- the inputs drawn

\* Sets of at most k members of S.
RECURSIVE KSubsets(_, _)
KSubsets(S, k) ==
  IF k = 0 THEN {{}}
  ELSE LET smaller == KSubsets(S, k - 1)
       IN smaller \cup {T \cup {x} : T \in smaller, x \in S}

Chars_hello_world == <<"h", "e", "l", "l", "o", NL, "w", "o", "r", "l", "d">>

FileTemplates ==
  { \* a text file of two lines
    [dir |-> <<>>, name |-> <<"f", "i", "l", "e", "1", ".", "t", "x", "t">>,
     exists |-> TRUE, readable |-> TRUE, nul |-> FALSE, size |-> 11, utf8 |-> TRUE,
     text |-> Chars_hello_world],
    \* bytes that are not UTF-8: decoded with the replacement character
    [dir |-> <<>>, name |-> <<"f", "i", "l", "e", "1", ".", "p", "y">>,
     exists |-> TRUE, readable |-> TRUE, nul |-> FALSE, size |-> 4, utf8 |-> FALSE,
     text |-> <<"c", "a", "f", "U+FFFD">>],
    \* a zero byte among the first 1024
    [dir |-> <<>>, name |-> <<"i", "m", "a", "g", "e", ".", "b", "i", "n">>,
     exists |-> TRUE, readable |-> TRUE, nul |-> TRUE, size |-> 16, utf8 |-> FALSE,
     text |-> <<"U+FFFD">>],
    \* one byte over the size limit
    [dir |-> <<>>, name |-> <<"b", "i", "g", ".", "d", "a", "t">>,
     exists |-> TRUE, readable |-> TRUE, nul |-> FALSE, size |-> MAX_FILE_SIZE + 1, utf8 |-> TRUE,
     text |-> <<"x">>],
    \* names the walk leaves out
    [dir |-> <<>>, name |-> <<"R", "E", "A", "D", "M", "E", ".", "m", "d">>,
     exists |-> TRUE, readable |-> TRUE, nul |-> FALSE, size |-> 1, utf8 |-> TRUE,
     text |-> <<"r">>],
    [dir |-> <<>>, name |-> <<".", "e", "n", "v">>,
     exists |-> TRUE, readable |-> TRUE, nul |-> FALSE, size |-> 1, utf8 |-> TRUE,
     text |-> <<"e">>],
    \* a symbolic link whose target is gone
    [dir |-> <<>>, name |-> <<"l", "i", "n", "k">>,
     exists |-> FALSE, readable |-> FALSE, nul |-> FALSE, size |-> 0, utf8 |-> TRUE,
     text |-> <<>>],
    \* a file the user may not open
    [dir |-> <<>>, name |-> <<"l", "o", "c", "k", "e", "d", ".", "t", "x", "t">>,
     exists |-> TRUE, readable |-> FALSE, nul |-> FALSE, size |-> 1, utf8 |-> TRUE,
     text |-> <<"s">>] }

Name_src == <<"s", "r", "c">>
Name_node_modules == <<"n", "o", "d", "e", "_", "m", "o", "d", "u", "l", "e", "s">>
Name_cache == <<".", "c", "a", "c", "h", "e">>
Name_lib == <<"l", "i", "b">>

\* Where the files lie: any of them in the input folder or in src, the plain text file
\* also in src/lib and in the pruned folders node_modules and src/.cache.
InputPlacements ==
  {[t EXCEPT !.dir = d] : t \in FileTemplates, d \in {<<>>, <<Name_src>>}}
  \cup {[t EXCEPT !.dir = d] :
          t \in {u \in FileTemplates : u.text = Chars_hello_world},
          d \in {<<Name_src, Name_lib>>, <<Name_node_modules>>, <<Name_src, Name_cache>>}}

InputFilesets ==
  {S \in KSubsets(InputPlacements, MaxFiles) : \A f, g \in S : FilePath(f) = FilePath(g) => f = g}

\* The input tree as a map path -> node, for its listing.
InputTree(S) ==
  LET dirs == UNION {{SubSeq(f.dir, 1, k) : k \in 0..Len(f.dir)} : f \in S} \cup {<<>>}
  IN [p \in dirs \cup {FilePath(f) : f \in S} |-> IF p \in dirs THEN DirNode ELSE RawNode]

\* The listings of an input tree: every scan order, and at most one directory whose
\* scan is denied.
InputListings(S) ==
  LET orders == ScanOrders(InputTree(S))
  IN orders \cup {[o EXCEPT ![d].ok = FALSE] : o \in orders, d \in FolderDirs(InputTree(S))}

StalePage(path, n) == <<PathStr(path) \o <<"#", Ascii[Ord("0") + n - 31]>>>>
\* a parsable PDF of n pages found at path
StalePdf(path, n) == PdfNode([i \in 1..n |-> StalePage(path, i)])

\* What <output_folder>/individual_pdfs may be before the run: nothing (it does not
\* exist), a plain file, a directory holding the merged document of an earlier run, or
\* one holding a plain file named src and a directory named file1.pdf.
OutputFolders ==
  { <<>>,
    (<<>> :> RawNode),
    (<<>> :> DirNode) @@ (<<MergedName>> :> StalePdf(<<MergedName>>, 1)),
    (<<>> :> DirNode) @@ (<<Name_src>> :> RawNode)
      @@ (<<<<"f", "i", "l", "e", "1", ".", "p", "d", "f">>>> :> DirNode) }

\* What <output_folder>/application_folder_structure.pdf may be before the run: nothing,
\* or a directory.
StructurePaths == {NoNode, DirNode}

FileAt(p) == CHOOSE f \in files : FilePath(f) = p

\* ------------------------------------------------------------------ main

Init ==
  /\ files \in InputFilesets
  /\ ls \in InputListings(files)
  /\ in_ok \in BOOLEAN
  /\ font_ok \in BOOLEAN
  /\ out0 \in OutputFolders
  /\ out = out0
  /\ args = NoArgs
  /\ pc = "start"
  /\ all_files = <<>>
  /\ calls = <<>>
  /\ reads = {}
  /\ writes = <<>>
  /\ structure_pdf \in StructurePaths
  /\ merges = <<>>
  /\ exit_code = -1

\* if not os.path.isfile(font_path)
FontCheckSkipped(present) == TRUE
FontCheck(present) == present

\* main up to the walk: the arguments, the two checks, the output directory
Start ==
  /\ pc = "start"
  /\ \E gs \in BOOLEAN, mg \in BOOLEAN, fn \in FontNames :
       args' = [generate_structure |-> gs, merge |-> mg, fontname |-> fn]
  /\ IF ~in_ok \/ ~FontCheck(font_ok)
     THEN /\ pc' = "exit"
          /\ exit_code' = 1
          /\ out' = out
     ELSE IF MkdirRaises(out, <<>>)
     THEN \* individual_pdfs_folder.mkdir raises and the exception leaves main
          /\ pc' = "crashed"
          /\ exit_code' = 1
          /\ out' = out
     ELSE /\ pc' = "walk"
          /\ exit_code' = exit_code
          /\ out' = MkdirParents(out, <<>>)
  /\ UNCHANGED <<files, ls, in_ok, font_ok, out0, all_files, calls, reads, writes,
                 structure_pdf, merges>>

\* main's collection of all_files
Walk ==
  /\ pc = "walk"
  /\ all_files' = CollectFiles(ls)
  /\ pc' = "loop"
  /\ UNCHANGED <<files, ls, in_ok, font_ok, out0, out, args, calls, reads, writes,
                 structure_pdf, merges, exit_code>>

\* one iteration of main's loop over all_files
ProcessFile ==
  /\ pc = "loop"
  /\ Len(calls) < Len(all_files)
  /\ LET file_path == all_files[Len(calls) + 1]
         r == process_file(FileAt(file_path), out)
     IN /\ calls' = Append(calls, file_path)
        /\ IF ~font_ok
           THEN \* PDF.__init__ finds no font: sys.exit(1)
                /\ pc' = "exit" /\ exit_code' = 1 /\ UNCHANGED <<out, reads, writes>>
           ELSE /\ out' = r.out
                /\ reads' = IF r.read THEN reads \cup {file_path} ELSE reads
                /\ writes' = IF r.wrote = <<>> THEN writes
                             ELSE Append(writes, [file |-> file_path, pdf |-> r.wrote[1]])
                /\ IF r.raised
                   THEN \* the exception leaves main: traceback, exit code 1
                        pc' = "crashed" /\ exit_code' = 1
                   ELSE UNCHANGED <<pc, exit_code>>
  /\ UNCHANGED <<files, ls, in_ok, font_ok, out0, args, all_files, structure_pdf, merges>>

\* main after the loop: the folder structure PDF if requested
StructureStep ==
  /\ pc = "loop"
  /\ Len(calls) = Len(all_files)
  /\ IF args.generate_structure
     THEN LET r == generate_folder_structure_pdf(ls, args.fontname, structure_pdf)
          IN IF r.raised
             THEN \* the exception leaves main: traceback, exit code 1
                  /\ pc' = "crashed" /\ exit_code' = 1 /\ UNCHANGED structure_pdf
             ELSE /\ pc' = "merge" /\ structure_pdf' = r.pdf /\ UNCHANGED exit_code
     ELSE /\ pc' = "merge" /\ UNCHANGED <<structure_pdf, exit_code>>
  /\ UNCHANGED <<files, ls, in_ok, font_ok, out0, out, args, all_files, calls, reads, writes,
                 merges>>

\* main's last step: the merge if requested, and the return
MergeStep ==
  /\ pc = "merge"
  /\ IF args.merge
     THEN \E order \in ScanOrders(out) :
            LET m == merge_pdfs(out, MergedName, order)
            IN /\ out' = m.out
               /\ merges' = Append(merges, [all_pdfs |-> m.all_pdfs, pages |-> m.pages])
     ELSE UNCHANGED <<out, merges>>
  /\ pc' = "done"
  /\ exit_code' = 0
  /\ UNCHANGED <<files, ls, in_ok, font_ok, out0, args, all_files, calls, reads, writes,
                 structure_pdf>>

Next == Start \/ Walk \/ ProcessFile \/ StructureStep \/ MergeStep

Spec == Init /\ [][Next]_vars

\* ------------------------------------------------- merge_pdfs called by itself

\* The folders merge_pdfs is called on: at most MaxPdfs entries in the folder itself or
\* in a sub-directory.  a.pdf and b.pdf are parsable PDFs of one or two pages or
\* unparsable files, OLD.PDF and the merged document of an earlier run are PDFs of one
\* page, notes.txt is no PDF.
MergeDirs == { <<>>, <<<<"a">>>>, <<Name_src>> }
MergeEntries ==
  UNION {{[path |-> p, node |-> c] : c \in {RawNode, StalePdf(p, 1), StalePdf(p, 2)}} :
           p \in {d \o <<n>> : d \in MergeDirs,
                                n \in {<<"a", ".", "p", "d", "f">>, <<"b", ".", "p", "d", "f">>}}}
  \cup {[path |-> p, node |-> StalePdf(p, 1)] :
          p \in {d \o <<n>> : d \in MergeDirs,
                               n \in {MergedName, <<"O", "L", "D", ".", "P", "D", "F">>}}}
  \cup {[path |-> d \o <<<<"n", "o", "t", "e", "s", ".", "t", "x", "t">>>>, node |-> RawNode] :
          d \in MergeDirs}
MergeFolders ==
  { LET dirs == UNION {{SubSeq(e.path, 1, k) : k \in 0..(Len(e.path) - 1)} : e \in S} \cup {<<>>}
    IN [p \in dirs \cup {e.path : e \in S} |->
          IF p \in dirs THEN DirNode ELSE (CHOOSE e \in S : e.path = p).node]
    : S \in {T \in KSubsets(MergeEntries, MaxPdfs) : \A e, g \in T : e.path = g.path => e = g} }

\* ls is here the order in which the scans of the folder return its entries, the
\* merged document among them once it is written: an order the operating system
\* chooses and keeps from one call to the next.
InitMerge ==
  /\ files = {}
  /\ out0 \in MergeFolders
  /\ ls \in ScanOrders(IF <<MergedName>> \in DOMAIN out0 THEN out0
                       ELSE WriteFile(out0, <<MergedName>>, RawNode))
  /\ in_ok = TRUE
  /\ font_ok = TRUE
  /\ out = out0
  /\ args = NoArgs
  /\ pc = "merge_pdfs"
  /\ all_files = <<>>
  /\ calls = <<>>
  /\ reads = {}
  /\ writes = <<>>
  /\ structure_pdf = NoNode
  /\ merges = <<>>
  /\ exit_code = -1

\* merge_pdfs(folder, "app_source.pdf"), called again on the folder it left
MergeCall ==
  /\ pc = "merge_pdfs"
  /\ Len(merges) < MaxMerges
  /\ LET m == merge_pdfs(out, MergedName, Listing(out, ls))
     IN /\ out' = m.out
        /\ merges' = Append(merges, [all_pdfs |-> m.all_pdfs, pages |-> m.pages])
  /\ UNCHANGED <<files, ls, in_ok, font_ok, out0, args, pc, all_files, calls, reads, writes,
                 structure_pdf, exit_code>>

NextMerge == MergeCall

SpecMerge == InitMerge /\ [][NextMerge]_vars


\* ================================================================== claims

Last(seq) == seq[Len(seq)]
\* the header cell of the document of the file at path p
HeaderLine(p) == <<"File Location: ">> \o InputFolder \o <<" > ">> \o DisplayPath(PathStr(p))
\* the document made of the header and one placeholder cell
PlaceholderPdf(p, placeholder) == PdfNode(Paginate(<<HeaderLine(p), <<>>, <<>>, placeholder>>))
\* a path without the extension of its last component
StripExt(p) == Parent(p) \o <<SubSeq(Basename(p), 1, Len(Basename(p)) - Len(Suffix(Basename(p))))>>
\* no skip rule matches the file: no folder above it is pruned, its name is not skipped
NoSkipRule(f) ==
  /\ \A k \in 1..Len(f.dir) : f.dir[k] \notin SKIP_FOLDERS /\ f.dir[k][1] # "."
  /\ f.name \notin SKIP_FILES /\ f.name[1] # "."
\* every directory above the file can be listed
Listable(f) == \A k \in 0..Len(f.dir) : ls[SubSeq(f.dir, 1, k)].ok
\* the output folder the run finds can be created or is a directory
OutputFolderUsable == ~MkdirRaises(out0, <<>>)
\* nothing but earlier PDFs in the output folder the run finds
Unobstructed == OutputFolderUsable /\ \A p \in DOMAIN out0 : p = <<>> \/ out0[p].type = "pdf"
\* the title of the tree can be set in bold
BoldTitle == ~SetFontRaises(AddFont(args.fontname), args.fontname, <<"B">>)
Terminated == pc \in {"exit", "crashed", "done"}

\* C1: once process_file has been called on a file the Binary Detector classifies as
\* binary, the output folder holds, at the file's relative path with the extension
\* replaced by .pdf, a PDF of exactly the File Location header and the placeholder
\* **Binary File: Content not displayed**.
C1_BinaryFileGetsPlaceholderPdf ==
  (calls # <<>> /\ font_ok /\ is_binary(FileAt(Last(calls))))
    => LET target == WithSuffix(Last(calls), PdfSuffix)
       IN target \in DOMAIN out /\ out[target] = PlaceholderPdf(Last(calls), BinaryPlaceholder)

\* C2: after a complete run of main, every file under the input root that no skip rule
\* matches and whose size is at most MAX_FILE_SIZE has exactly one output PDF whose
\* relative path without extension equals the file's.  (Stated here only for files in
\* directories that can be listed and an output folder with nothing in the way.)
C2_OnePdfPerEligibleFile ==
  (pc = "done" /\ Unobstructed)
    => \A f \in files :
         (NoSkipRule(f) /\ Listable(f) /\ f.size <= MAX_FILE_SIZE)
           => Cardinality({p \in DOMAIN out :
                             out[p].type = "pdf" /\ StripExt(p) = StripExt(FilePath(f))}) = 1

\* C3: once process_file has been called on a file larger than MAX_FILE_SIZE, the
\* file's full text has not been read and the output folder holds its PDF, made of the
\* header and the placeholder **File skipped: Exceeds maximum size of <N> MB**.
C3_OversizedFileGetsPlaceholderPdf ==
  (calls # <<>> /\ font_ok /\ FileAt(Last(calls)).exists
     /\ FileAt(Last(calls)).size > MAX_FILE_SIZE)
    => LET target == WithSuffix(Last(calls), PdfSuffix)
       IN /\ Last(calls) \notin reads
          /\ target \in DOMAIN out
          /\ out[target] = PlaceholderPdf(Last(calls), SizePlaceholder)

\* C4: within one run no two distinct source files are written to the same output PDF
\* path.
C4_NoTwoFilesShareAPdf ==
  \A i, j \in 1..Len(writes) :
    writes[i].file # writes[j].file => writes[i].pdf # writes[j].pdf

\* C5: once the input folder and the font have passed the startup checks, the run ends
\* with exit code 0, process_file invoked on every candidate, and the tree and merge
\* steps run where requested, whatever fails while one file is processed.  (Stated for
\* runs whose output folder can be created and whose font has the bold style the title
\* of the tree asks for.)
C5_NoFileErrorAbortsTheRun ==
  (Terminated /\ in_ok /\ font_ok /\ OutputFolderUsable /\ BoldTitle)
    => /\ exit_code = 0
       /\ calls = all_files
       /\ (args.generate_structure /\ structure_pdf.type # "dir") => structure_pdf.type = "pdf"
       /\ args.merge => Len(merges) = 1

\* C6: merge_pdfs never takes a file named output_filename as a source, also when a
\* merged document of an earlier run is in the folder, and every later merge_pdfs call
\* on the folder yields the page sequence of the first.
C6_MergeLeavesOutItsOutput ==
  \A i \in 1..Len(merges) :
    /\ \A k \in 1..Len(merges[i].all_pdfs) : Basename(merges[i].all_pdfs[k]) # MergedName
    /\ merges[i].pages = merges[1].pages

\* a second merge of a folder that held a merged document and a PDF to merge
C6_Witness ==
  /\ Len(merges) = 2
  /\ \E p \in DOMAIN out0 : out0[p].type = "pdf" /\ Basename(p) = MergedName
  /\ merges[2].pages # <<>>

\* What merge_pdfs collects from the folder: the files named *.pdf, in any case, except
\* those named as the merged document.
Collected ==
  {p \in DOMAIN out : /\ out[p].type # "dir"
                      /\ EndsWith(Lower(Basename(p)), PdfSuffix)
                      /\ Basename(p) # MergedName}

\* the pages of the parsable PDFs among sources, in their order
RECURSIVE PagesOf(_)
PagesOf(sources) ==
  IF sources = <<>> THEN <<>>
  ELSE (IF out[Head(sources)].type = "pdf" THEN out[Head(sources)].pages ELSE <<>>)
       \o PagesOf(Tail(sources))

\* each collected PDF once, and the merged document the pages of the parsable ones
MergesEveryPdfOnce(m) ==
  /\ Range(m.all_pdfs) = Collected
  /\ Len(m.all_pdfs) = Cardinality(Collected)
  /\ m.pages = PagesOf(m.all_pdfs)

\* C7 as stated: the collected PDFs are merged in the lexicographic order of their
\* paths across the whole folder tree.
C7_MergedInPathOrder ==
  \A i \in 1..Len(merges) :
    /\ MergesEveryPdfOnce(merges[i])
    /\ \A j, k \in 1..Len(merges[i].all_pdfs) :
         j < k => StrLess(PathStr(merges[i].all_pdfs[j]), PathStr(merges[i].all_pdfs[k]))

\* C7 amended: the merged document is the concatenation of the pages of every collected
\* PDF (each parsable PDF once, its pages in order, the others skipped), the PDFs taken
\* directory by directory in the order of the walk, a directory's own PDFs before those
\* of the directories below it, and in lexicographic order of their names within one
\* directory.
C7_MergedInWalkOrder ==
  \A i \in 1..Len(merges) :
    LET S == merges[i].all_pdfs
    IN /\ MergesEveryPdfOnce(merges[i])
       /\ \A j, k \in 1..Len(S) :
            j < k =>
              /\ Parent(S[j]) = Parent(S[k]) => StrLess(Basename(S[j]), Basename(S[k]))
              /\ ~(IsPrefix(Parent(S[k]), Parent(S[j])) /\ Parent(S[k]) # Parent(S[j]))
              /\ \A l \in 1..Len(S) :
                   (k < l /\ Parent(S[j]) = Parent(S[l])) => Parent(S[k]) = Parent(S[j])

\* a merge of two multi-page or unparsable PDFs of different directories whose walk
\* order is not their path order
C7_Witness ==
  /\ merges # <<>>
  /\ Len(merges[1].all_pdfs) = 2
  /\ merges[1].pages # <<>>
  /\ StrLess(PathStr(merges[1].all_pdfs[2]), PathStr(merges[1].all_pdfs[1]))

\* C8: with no font file, or no input directory, main exits with code 1 before
\* process_file is invoked, before any PDF is written and before the tree and merge
\* steps; the output folder is as it was but for directories created.
C8_StartupFailureStopsEverything ==
  (pc # "start" /\ (~in_ok \/ ~font_ok))
    => /\ pc = "exit"
       /\ exit_code = 1
       /\ calls = <<>>
       /\ writes = <<>>
       /\ structure_pdf.type # "pdf"
       /\ merges = <<>>
       /\ \A p \in DOMAIN out0 : p \in DOMAIN out /\ out[p] = out0[p]
       /\ \A p \in DOMAIN out \ DOMAIN out0 : out[p].type = "dir"

\* the font is missing, the input folder holds files to convert and both flags are set
C8_Witness ==
  /\ pc = "exit"
  /\ in_ok /\ ~font_ok
  /\ args.generate_structure /\ args.merge
  /\ CollectFiles(ls) # <<>>

\* the files the walk is to find: those of listable directories that no skip rule matches
Candidates == {FilePath(f) : f \in {g \in files : NoSkipRule(g) /\ Listable(g)}}

\* C9: the candidate list holds exactly the files no skip rule matches, it is complete
\* before the first process_file call, and process_file is invoked once per candidate,
\* in the order of the list, and on no other file.
C9_EveryCandidateProcessedOnce ==
  /\ (pc \in {"loop", "merge", "crashed", "done"} /\ OutputFolderUsable)
       => Range(all_files) = Candidates /\ Len(all_files) = Cardinality(Candidates)
  /\ calls # <<>> => pc \notin {"start", "walk"}
  /\ Len(calls) <= Len(all_files) /\ calls = SubSeq(all_files, 1, Len(calls))
  /\ (Terminated /\ in_ok /\ font_ok) => calls = all_files

\* The rendering of the tree, read off the listing entry by entry.
Entries == UNION {{d \o <<n>> : n \in Range(ls[d].dirs) \cup Range(ls[d].files)} : d \in DOMAIN ls}
\* the entries and directories that are rendered: every directory above them is listed
Shown(p) == \A a \in Ancestors(p) : ls[a].ok
DeniedDir(p) == p \in DOMAIN ls /\ ~ls[p].ok
\* p is the last of the sorted entries of its directory
IsLastEntry(p) ==
  \A q \in Entries : (Parent(q) = Parent(p) /\ q # p) => StrLess(Basename(q), Basename(p))
\* the prefix of the lines of the entries of directory d
PrefixBelow(d) == [k \in 1..Len(d) |-> IF IsLastEntry(SubSeq(d, 1, k)) THEN Blank ELSE Bar]
ExpectedLine(p) ==
  PrefixBelow(Parent(p)) \o <<IF IsLastEntry(p) THEN LastConnector ELSE MidConnector>> \o Basename(p)
ExpectedDenied(d) == <<PrefixBelow(d) \o <<LastConnector, "[Permission Denied]">>, <<>>>>
\* p comes before q in the rendering: a directory before what it holds, and entries of
\* one directory in the order of their names
RendersBefore(p, q) ==
  \/ IsPrefix(p, q) /\ p # q
  \/ \E k \in 1..Len(p) :
       /\ k <= Len(q)
       /\ SubSeq(p, 1, k - 1) = SubSeq(q, 1, k - 1)
       /\ StrLess(p[k], q[k])
ExpectedTree ==
  LET shown == {p \in Entries : Shown(p)}
      nth(i) == CHOOSE p \in shown : Cardinality({q \in shown : RendersBefore(q, p)}) = i - 1
      lines(p) == <<ExpectedLine(p)>> \o (IF DeniedDir(p) THEN ExpectedDenied(p) ELSE <<>>)
  IN (IF DeniedDir(<<>>) THEN ExpectedDenied(<<>>) ELSE <<>>)
     \o Flatten([i \in 1..Cardinality(shown) |-> lines(nth(i))])

\* C10: in the folder structure PDF every entry of a listed directory has one line, its
\* connector the last-item connector for the last of the directory's sorted entries and
\* the middle connector for the others, its prefix four spaces for every directory above
\* it that was a last entry and the bar for every other; a directory whose listing is
\* denied has the single leaf line [Permission Denied] and nothing below it.
C10_TreeLines ==
  structure_pdf.type = "pdf"
    => Flatten(structure_pdf.pages)
         = <<<<"Application Folder Structure">>, <<>>, <<>>>> \o ExpectedTree

\* a tree rendered with a directory that is not the last entry and holds an entry, and
\* a directory whose listing is denied
C10_Witness ==
  /\ structure_pdf.type = "pdf"
  /\ \E i \in 1..Len(Flatten(structure_pdf.pages)) :
       LET line == Flatten(structure_pdf.pages)[i]
       IN Len(line) > 0 /\ line[1] = Bar
  /\ \E d \in DOMAIN ls : ~ls[d].ok /\ Shown(d) /\ d # <<>>

====
